---------------------------- MODULE Spec2Model ----------------------------
(***************************************************************************)
(* Answer evaluation of the Mandarin assistant's serverless function       *)
(* (netlify/functions/generate.ts): the rule-based scorer                  *)
(* calculateRuleBasedScore, the binary scoring of quiz questions, and the  *)
(* evaluateAnswer action of the handler with its optional AI feedback      *)
(* enhancement.                                                            *)
(*                                                                         *)
(* A string is a sequence of UTF-16 code units (naturals).  All characters *)
(* of the model's alphabet lie in the Basic Multilingual Plane, so a code  *)
(* unit is a character and text.split('') yields the characters.           *)
(***************************************************************************)
EXTENDS Naturals, Sequences, FiniteSets

(***************************************************************************)
(* Bounds of the model.                                                    *)
(***************************************************************************)
MaxCorrectLen == 2
MaxStudentLen == 3

\* the characters answers are drawn from:
\*   32 ' '   65 'A'   97 'a'   20320 U+4F60   22909 U+597D
\*   12290 U+3002 (ideographic full stop)   65292 U+FF0C (fullwidth comma)
Alphabet == {32, 65, 97, 20320, 22909, 12290, 65292}

RECURSIVE StringsUpTo(_)
StringsUpTo(n) ==
    IF n = 0 THEN {<< >>}
    ELSE LET shorter == StringsUpTo(n - 1)
         IN  shorter \cup {Append(s, c) : s \in {t \in shorter : Len(t) = n - 1}, c \in Alphabet}

RECURSIVE StringsOver(_, _)
StringsOver(alphabet, n) ==
    IF n = 0 THEN {<< >>}
    ELSE LET shorter == StringsOver(alphabet, n - 1)
         IN  shorter \cup {Append(s, c) : s \in {t \in shorter : Len(t) = n - 1}, c \in alphabet}

CorrectAnswers == StringsUpTo(MaxCorrectLen)
StudentAnswers == StringsUpTo(MaxStudentLen)
QuestionTypes  == {"quiz", "translation"}

(***************************************************************************)
(* String.prototype.trim: strips WhiteSpace and LineTerminator code points *)
(* (ECMAScript) from both ends.                                            *)
(***************************************************************************)
WhiteSpaceChars ==
    {9, 10, 11, 12, 13, 32, 160, 5760} \cup (8192..8202)
        \cup {8232, 8233, 8239, 8287, 12288, 65279}

RECURSIVE trimStart(_)
trimStart(s) ==
    IF s # << >> /\ Head(s) \in WhiteSpaceChars THEN trimStart(Tail(s)) ELSE s

RECURSIVE trimEnd(_)
trimEnd(s) ==
    IF s # << >> /\ s[Len(s)] \in WhiteSpaceChars
    THEN trimEnd(SubSeq(s, 1, Len(s) - 1))
    ELSE s

\* mutant: only leading whitespace is stripped
trimLeadingOnly(s) == trimStart(s)

trim(s) == trimEnd(trimStart(s))

(***************************************************************************)
(* calculateRuleBasedScore and its local helpers.                          *)
(***************************************************************************)
ChineseFirst == 19968   \* 一
ChineseLast  == 40959   \* 鿿

\* mutant: the range starts at 'A', so that letters count as ideographs
isChineseCharFromLetters(char) == char >= 65 /\ char <= ChineseLast

\* /[一-鿿]/.test(char)
isChineseChar(char) == char >= ChineseFirst /\ char <= ChineseLast

\* the character class of extractPunctuation's regular expression:
\* U+FF0C U+3002 U+FF01 U+FF1F U+FF1B U+FF1A U+3001 " " ' ' U+FF08 U+FF09
\* U+3010 U+3011 U+300A U+300B , . ! ? ; : - " ' ( ) [ ] { }
PunctuationChars ==
    {65292, 12290, 65281, 65311, 65307, 65306, 12289, 34, 39, 65288, 65289,
     12304, 12305, 12298, 12299,
     44, 46, 33, 63, 59, 58, 45, 40, 41, 91, 93, 123, 125}

\* mutant: the ideographic full stop U+3002 is missing from the class
isPunctuationCharNoFullStop(char) == char \in PunctuationChars \ {12290}

isPunctuationChar(char) == char \in PunctuationChars

\* text.split('').filter(char => /[一-鿿]/.test(char)).join('')
extractChineseChars(text) == SelectSeq(text, isChineseChar)

\* text.split('').filter(char => /[...]/.test(char))
extractPunctuation(text) == SelectSeq(text, isPunctuationChar)

\* mutant: startsWith in place of includes
includesAtStart(text, char) == text # << >> /\ text[1] = char

\* String.prototype.includes / Array.prototype.includes for one character
includes(text, char) == \E i \in DOMAIN text : text[i] = char

\* mutant: the ideographs are compared as sets
charsMatchAsSets(correctChars, studentChars) ==
    {correctChars[i] : i \in DOMAIN correctChars} =
        {studentChars[i] : i \in DOMAIN studentChars}

\* mutant: the student's ideographs need only start with the reference's
charsMatchStartsWith(correctChars, studentChars) ==
    /\ Len(correctChars) <= Len(studentChars)
    /\ SubSeq(studentChars, 1, Len(correctChars)) = correctChars

\* mutant: an empty reference ideograph string matches nothing
charsMatchNonEmpty(correctChars, studentChars) ==
    Len(correctChars) > 0 /\ correctChars = studentChars

\* const charsMatch = correctChars === studentChars
charsMatch(correctChars, studentChars) == correctChars = studentChars

\* mutant: overlap is looked for at equal positions only
hasOverlapSamePosition(correctChars, studentChars) ==
    /\ Len(correctChars) > 0
    /\ Len(studentChars) > 0
    /\ \E i \in DOMAIN correctChars :
           i \in DOMAIN studentChars /\ studentChars[i] = correctChars[i]

\* correctChars.length > 0 && studentChars.length > 0 &&
\*   [...correctChars].some(char => studentChars.includes(char))
hasOverlap(correctChars, studentChars) ==
    /\ Len(correctChars) > 0
    /\ Len(studentChars) > 0
    /\ \E i \in DOMAIN correctChars : includes(studentChars, correctChars[i])

\* mutant: a reference mark counts only at the same place in the student's list
hasCorrectPunctuationSamePosition(correctPunctuation, studentPunctuation) ==
    /\ Len(correctPunctuation) > 0
    /\ \E i \in DOMAIN correctPunctuation :
           i \in DOMAIN studentPunctuation
               /\ studentPunctuation[i] = correctPunctuation[i]

\* correctPunctuation.length > 0 && correctPunctuation.some(p => studentPunctuation.includes(p))
hasCorrectPunctuation(correctPunctuation, studentPunctuation) ==
    /\ Len(correctPunctuation) > 0
    /\ \E i \in DOMAIN correctPunctuation :
           includes(studentPunctuation, correctPunctuation[i])

\* mutant: "all different" also asks the student to have some punctuation
allPunctuationDifferentNonEmpty(correctPunctuation, studentPunctuation) ==
    /\ Len(correctPunctuation) > 0
    /\ Len(studentPunctuation) > 0
    /\ ~ \E i \in DOMAIN correctPunctuation :
             includes(studentPunctuation, correctPunctuation[i])

\* correctPunctuation.length > 0 && !correctPunctuation.some(p => studentPunctuation.includes(p))
allPunctuationDifferent(correctPunctuation, studentPunctuation) ==
    /\ Len(correctPunctuation) > 0
    /\ ~ \E i \in DOMAIN correctPunctuation :
             includes(studentPunctuation, correctPunctuation[i])

\* correctPunctuation.length === 0
noPunctuationInCorrect(correctPunctuation) == Len(correctPunctuation) = 0

\* the branch of the ideographs-match case taken for the punctuation lists
punctuationBranch(correctPunctuation, studentPunctuation) ==
    IF noPunctuationInCorrect(correctPunctuation)
    THEN IF Len(studentPunctuation) = 0
         THEN [score |-> 100, feedback |-> "Perfect! Your answer is correct."]
         ELSE [score |-> 75,
               feedback |-> "Excellent! Your Chinese characters are correct, but you have extra punctuation that should be removed."]
    ELSE IF hasCorrectPunctuation(correctPunctuation, studentPunctuation)
    THEN [score |-> 75,
          feedback |-> "Great! Your Chinese characters are correct and you have some correct punctuation. Just need to match all punctuation exactly."]
    ELSE IF allPunctuationDifferent(correctPunctuation, studentPunctuation)
    THEN [score |-> 50,
          feedback |-> "Good! Your Chinese characters are correct, but the punctuation needs to match the correct answer."]
    ELSE [score |-> 75,
          feedback |-> "Excellent! Your Chinese characters are correct. Check the punctuation carefully."]

\* mutant: overlap is looked for among all characters, not the ideographs
applyScoringRulesAnyOverlap(correct, student) ==
    LET correctChars       == extractChineseChars(correct)
        studentChars       == extractChineseChars(student)
        correctPunctuation == extractPunctuation(correct)
        studentPunctuation == extractPunctuation(student)
    IN  IF charsMatch(correctChars, studentChars)
        THEN punctuationBranch(correctPunctuation, studentPunctuation)
        ELSE IF hasOverlap(correct, student)
        THEN [score |-> 25,
              feedback |-> "You have some correct characters, but the answer needs more work. Keep practicing!"]
        ELSE [score |-> 0,
              feedback |-> "The answer is incorrect. Please review the correct answer and try again."]

\* the scoring rules applied in priority order to the trimmed answers
applyScoringRules(correct, student) ==
    LET correctChars       == extractChineseChars(correct)
        studentChars       == extractChineseChars(student)
        correctPunctuation == extractPunctuation(correct)
        studentPunctuation == extractPunctuation(student)
    IN  IF charsMatch(correctChars, studentChars)
        THEN punctuationBranch(correctPunctuation, studentPunctuation)
        ELSE IF hasOverlap(correctChars, studentChars)
        THEN [score |-> 25,
              feedback |-> "You have some correct characters, but the answer needs more work. Keep practicing!"]
        ELSE [score |-> 0,
              feedback |-> "The answer is incorrect. Please review the correct answer and try again."]

calculateRuleBasedScore(correctAns, studentAns) ==
    LET correct == trim(correctAns)
        student == trim(studentAns)
    IN  IF correct = student
        THEN [score |-> 100, feedback |-> "Perfect! Your answer is exactly correct."]
        ELSE applyScoringRules(correct, student)

(***************************************************************************)
(* Binary scoring of quiz (choice) questions in the evaluateAnswer action. *)
(***************************************************************************)
\* mutant: quiz answers go through the graduated scorer
quizScoreGraduated(correctAns, studentAns) ==
    calculateRuleBasedScore(correctAns, studentAns)

\* String.prototype.toLowerCase on the ASCII letters
toLowerCase(s) ==
    [i \in DOMAIN s |-> IF s[i] >= 65 /\ s[i] <= 90 THEN s[i] + 32 ELSE s[i]]

\* mutant: quiz answers are compared without regard to letter case
quizScoreIgnoreCase(correctAns, studentAns) ==
    LET correct == toLowerCase(trim(correctAns))
        student == toLowerCase(trim(studentAns))
        isMatch == correct = student
    IN  IF isMatch
        THEN [score |-> 100, feedback |-> "Correct! Great job!"]
        ELSE [score |-> 0,
              feedback |-> "Incorrect. Please review the correct answer and try again."]

\* mutant: quiz answers are compared as they were sent
quizScoreUntrimmed(correctAns, studentAns) ==
    LET isMatch == correctAns = studentAns
    IN  IF isMatch
        THEN [score |-> 100, feedback |-> "Correct! Great job!"]
        ELSE [score |-> 0,
              feedback |-> "Incorrect. Please review the correct answer and try again."]

quizScore(correctAns, studentAns) ==
    LET correct == trim(correctAns)
        student == trim(studentAns)
        isMatch == correct = student
    IN  IF isMatch
        THEN [score |-> 100, feedback |-> "Correct! Great job!"]
        ELSE [score |-> 0,
              feedback |-> "Incorrect. Please review the correct answer and try again."]

\* the rule-based step of evaluateAnswer: questionType selects the mode
evaluateRuleBased(correctAns, studentAns, qType) ==
    IF qType = "quiz"
    THEN quizScore(correctAns, studentAns)
    ELSE calculateRuleBasedScore(correctAns, studentAns)

(***************************************************************************)
(* The client-side copy of the evaluator (app/student/vocab/page.tsx).     *)
(* Its extractors and its overlap and punctuation tests are the server's,  *)
(* character for character; charsMatch and the feedback strings differ.    *)
(***************************************************************************)
\* const charsMatch = correctChars.length > 0 && correctChars === studentChars
clientCharsMatch(correctChars, studentChars) ==
    Len(correctChars) > 0 /\ correctChars = studentChars

clientPunctuationBranch(correctPunctuation, studentPunctuation) ==
    IF noPunctuationInCorrect(correctPunctuation)
    THEN IF Len(studentPunctuation) = 0
         THEN [score |-> 100, feedback |-> "Perfect! Your answer is correct."]
         ELSE [score |-> 75,
               feedback |-> "Excellent! Your Chinese characters are correct, but you have extra punctuation."]
    ELSE IF hasCorrectPunctuation(correctPunctuation, studentPunctuation)
    THEN [score |-> 75,
          feedback |-> "Great! Your Chinese characters are correct and you have some correct punctuation."]
    ELSE IF allPunctuationDifferent(correctPunctuation, studentPunctuation)
    THEN [score |-> 50,
          feedback |-> "Good! Your Chinese characters are correct, but the punctuation needs work."]
    ELSE [score |-> 75,
          feedback |-> "Excellent! Your Chinese characters are correct."]

clientApplyScoringRules(correct, student) ==
    LET correctChars       == extractChineseChars(correct)
        studentChars       == extractChineseChars(student)
        correctPunctuation == extractPunctuation(correct)
        studentPunctuation == extractPunctuation(student)
    IN  IF clientCharsMatch(correctChars, studentChars)
        THEN clientPunctuationBranch(correctPunctuation, studentPunctuation)
        ELSE IF hasOverlap(correctChars, studentChars)
        THEN [score |-> 25,
              feedback |-> "You have some correct characters, but the answer needs more work."]
        ELSE [score |-> 0,
              feedback |-> "Review the correct answer and try again."]

clientCalculateRuleBasedScore(correctAns, studentAns) ==
    LET correct == trim(correctAns)
        student == trim(studentAns)
    IN  IF correct = student
        THEN [score |-> 100, feedback |-> "Perfect! Your answer is exactly correct."]
        ELSE clientApplyScoringRules(correct, student)

\* the quiz branch of the client's evaluateAnswer
clientQuizScore(correctAns, studentAns) ==
    LET correct == trim(correctAns)
        student == trim(studentAns)
        isMatch == correct = student
    IN  IF isMatch
        THEN [score |-> 100, feedback |-> "Correct! Great job!"]
        ELSE [score |-> 0, feedback |-> "Incorrect."]

(***************************************************************************)
(* callWithRetry's classification of a thrown error.  An error carries a   *)
(* status, a code and a message; the message is kept as its sequence of    *)
(* words and message.includes(w) is the occurrence of the word w.          *)
(***************************************************************************)
RateLimitStatus == 429

Errors ==
    { [status |-> 429, code |-> 0,   message |-> << >>],
      [status |-> 0,   code |-> 429, message |-> << >>],
      [status |-> 0,   code |-> 0,   message |-> <<"quota", "exceeded">>],
      [status |-> 0,   code |-> 0,   message |-> <<"RESOURCE_EXHAUSTED">>],
      [status |-> 500, code |-> 0,   message |-> <<"fetch", "failed">>],
      [status |-> 0,   code |-> 0,   message |-> << >>] }

messageIncludes(message, word) == \E i \in DOMAIN message : message[i] = word

NoError == [status |-> 0, code |-> 0, message |-> <<"none">>]

\* mutant: every error that carries a status is retried
isRateLimitAnyStatus(error) ==
    \/ error.status # 0
    \/ error.code = RateLimitStatus
    \/ /\ error.message # << >>
       /\ \/ messageIncludes(error.message, "429")
          \/ messageIncludes(error.message, "quota")
          \/ messageIncludes(error.message, "RESOURCE_EXHAUSTED")

isRateLimit(error) ==
    \/ error.status = RateLimitStatus
    \/ error.code = RateLimitStatus
    \/ /\ error.message # << >>
       /\ \/ messageIncludes(error.message, "429")
          \/ messageIncludes(error.message, "quota")
          \/ messageIncludes(error.message, "RESOURCE_EXHAUSTED")

\* if (retries > 0 && isRateLimit)
shouldRetry(retriesLeft, error) == retriesLeft > 0 /\ isRateLimit(error)

\* mutant: the recursive call is given the same number of retries
sameRetries(retriesLeft) == retriesLeft

\* callWithRetry(fn, retries - 1, delay * 2)
nextRetries(retriesLeft) == retriesLeft - 1

nextDelay(ms) == ms * 2

(***************************************************************************)
(* The evaluateAnswer action of the handler.                               *)
(***************************************************************************)
MaxRequestLen == 1

\* a request field that is absent (undefined): no string holds 65536
Undefined == <<65536>>

RequestStrings == StringsUpTo(MaxRequestLen) \cup {Undefined}

\* response.text of the model: undefined, '', ' ', 'a', ' a '
AIReplies == {Undefined, << >>, <<32>>, <<97>>, <<32, 97, 32>>}

DefaultRetries   == 3      \* retries = 3
FeedbackRetries  == 1      \* callWithRetry(..., 1)
DefaultDelay     == 2000   \* delay = 2000
TutorExamplesMax == 3      \* fetchTutorExamples(3)

\* feedback text: a canned rule-based message, or the model's text
ruleFeedback(message) == [ai |-> FALSE, message |-> message, text |-> << >>]
aiFeedback(text)      == [ai |-> TRUE,  message |-> "",      text |-> text]

\* mutant: the answers are tested like the question, !correctAnswer
missingParametersFalsy(q, correctAns, studentAns) ==
    \/ q = Undefined \/ q = << >>
    \/ correctAns = Undefined \/ correctAns = << >>
    \/ studentAns = Undefined \/ studentAns = << >>

\* !question || correctAnswer === undefined || studentAnswer === undefined
missingParameters(q, correctAns, studentAns) ==
    \/ q = Undefined \/ q = << >>
    \/ correctAns = Undefined
    \/ studentAns = Undefined

\* if (aiResponse && aiResponse.trim()) finalFeedback = aiResponse.trim()
enhancedFeedback(feedback, aiResponse) ==
    IF aiResponse # Undefined /\ aiResponse # << >> /\ trim(aiResponse) # << >>
    THEN aiFeedback(trim(aiResponse))
    ELSE feedback

\* mutant: an enhanced feedback carries full marks with it
evaluateAnswerResponseEnhancedScore(ruleBased, feedback) ==
    [statusCode |-> 200,
     score |-> IF feedback.ai THEN 100 ELSE ruleBased.score,
     feedback |-> feedback, error |-> ""]

\* the 200 response of evaluateAnswer: { result: { score, feedback } }
evaluateAnswerResponse(ruleBased, feedback) ==
    [statusCode |-> 200, score |-> ruleBased.score, feedback |-> feedback,
     error |-> ""]

errorResponse(status, message) ==
    [statusCode |-> status, score |-> 0, feedback |-> ruleFeedback(""),
     error |-> message]

(***************************************************************************)
(* State.  correctAnswer, studentAnswer and questionType are the inputs of *)
(* an evaluation; result and pc belong to a direct call of the evaluator;  *)
(* the remaining variables belong to one evaluateAnswer request.           *)
(***************************************************************************)
VARIABLES correctAnswer, studentAnswer, questionType, result, pc,
          question, geminiApiKey, hpc, ruleBasedResult, finalFeedback,
          tutorExamples, retries, delay, calls, response,
          tutorFetch,    \* how fetchTutorExamples went: "none", "ok", "failed"
          aiOutcome,     \* how the model call ended: "none", "text", "blank", "threw"
          otherAnswer,   \* a second student answer to the same reference
          otherResult, otherPc,
          paddedCorrect,  \* correctAnswer between two runs of white space
          paddedStudent,  \* studentAnswer between two runs of white space
          paddedResult, paddedPc,
          clientResult,   \* what the client-side evaluateAnswer returned
          clientPc,
          retriesArg,     \* the retries argument of the outermost callWithRetry
          retryPc,        \* "idle", "try", "await", "sleep", "returned", "threw"
          inFlight,       \* invocations of fn that have not completed
          fnOutcomes,     \* how each completed invocation of fn ended, in order
          waits,          \* the delays slept, in order
          outcome,        \* what callWithRetry returned or threw
          httpMethod, bodyParses, action, openaiApiKey,
          text,           \* params.text of a generateSpeech request
          providerCalls,  \* the provider calls made, in order, with their input
          httpResponse    \* statusCode, header names and body of the response

evalVars == <<correctAnswer, studentAnswer, questionType, result, pc>>
handlerVars == <<question, geminiApiKey, hpc, ruleBasedResult, finalFeedback,
                 tutorExamples, retries, delay, calls, response,
                 tutorFetch, aiOutcome>>
pairVars == <<otherAnswer, otherResult, otherPc>>
padVars == <<paddedCorrect, paddedStudent, paddedResult, paddedPc>>
clientVars == <<clientResult, clientPc>>
retryVars == <<retriesArg, retryPc, inFlight, fnOutcomes, waits, outcome>>
httpVars == <<httpMethod, bodyParses, action, openaiApiKey, text,
              providerCalls, httpResponse>>
extVars == <<padVars, clientVars, retryVars, httpVars>>
inputVars == <<correctAnswer, studentAnswer, questionType, question, geminiApiKey>>
vars == <<correctAnswer, studentAnswer, questionType, result, pc,
          question, geminiApiKey, hpc, ruleBasedResult, finalFeedback,
          tutorExamples, retries, delay, calls, response,
          tutorFetch, aiOutcome, otherAnswer, otherResult, otherPc,
          paddedCorrect, paddedStudent, paddedResult, paddedPc,
          clientResult, clientPc,
          retriesArg, retryPc, inFlight, fnOutcomes, waits, outcome,
          httpMethod, bodyParses, action, openaiApiKey, text,
          providerCalls, httpResponse>>

NoResult == [score |-> 0, feedback |-> ""]
NoResponse == errorResponse(0, "")

HandlerIdle ==
    /\ question = Undefined
    /\ geminiApiKey = FALSE
    /\ hpc = "start"
    /\ ruleBasedResult = NoResult
    /\ finalFeedback = ruleFeedback("")
    /\ tutorExamples = 0
    /\ retries = 0
    /\ delay = 0
    /\ calls = 0
    /\ response = NoResponse
    /\ tutorFetch = "none"
    /\ aiOutcome = "none"

PairIdle ==
    /\ otherAnswer = << >>
    /\ otherResult = NoResult
    /\ otherPc = "idle"

PadIdle ==
    /\ paddedCorrect = << >>
    /\ paddedStudent = << >>
    /\ paddedResult = NoResult
    /\ paddedPc = "idle"

ClientIdle ==
    /\ clientResult = NoResult
    /\ clientPc = "idle"

NoOutcome == [kind |-> "none", value |-> 0, error |-> NoError]

RetryIdle ==
    /\ retriesArg = 0
    /\ retryPc = "idle"
    /\ inFlight = 0
    /\ fnOutcomes = << >>
    /\ waits = << >>
    /\ outcome = NoOutcome

NoHttpResponse == [statusCode |-> 0, headers |-> {}, body |-> "none"]

HttpIdle ==
    /\ httpMethod = "POST"
    /\ bodyParses = TRUE
    /\ action = "evaluateAnswer"
    /\ openaiApiKey = FALSE
    /\ text = Undefined
    /\ providerCalls = << >>
    /\ httpResponse = NoHttpResponse

ExtIdle == PadIdle /\ ClientIdle /\ RetryIdle /\ HttpIdle

Init ==
    /\ correctAnswer \in CorrectAnswers
    /\ studentAnswer \in StudentAnswers
    /\ questionType \in QuestionTypes
    /\ result = NoResult
    /\ pc = "call"
    /\ HandlerIdle
    /\ PairIdle
    /\ ExtIdle

\* questionType === 'quiz': binary scoring
EvaluateQuiz ==
    /\ pc = "call"
    /\ questionType = "quiz"
    /\ result' = quizScore(correctAnswer, studentAnswer)
    /\ pc' = "done"
    /\ UNCHANGED <<correctAnswer, studentAnswer, questionType>>
    /\ UNCHANGED handlerVars
    /\ UNCHANGED pairVars
    /\ UNCHANGED extVars

\* mutant: the ideographs are taken with text.match(...).join(''), which
\* throws on an answer without ideographs, so that the call has no result
EvaluateTextMatchThrows ==
    /\ pc = "call"
    /\ questionType # "quiz"
    /\ extractChineseChars(trim(correctAnswer)) # << >>
    /\ extractChineseChars(trim(studentAnswer)) # << >>
    /\ result' = calculateRuleBasedScore(correctAnswer, studentAnswer)
    /\ pc' = "done"
    /\ UNCHANGED <<correctAnswer, studentAnswer, questionType>>
    /\ UNCHANGED handlerVars
    /\ UNCHANGED pairVars
    /\ UNCHANGED extVars

\* otherwise: calculateRuleBasedScore
EvaluateText ==
    /\ pc = "call"
    /\ questionType # "quiz"
    /\ result' = calculateRuleBasedScore(correctAnswer, studentAnswer)
    /\ pc' = "done"
    /\ UNCHANGED <<correctAnswer, studentAnswer, questionType>>
    /\ UNCHANGED handlerVars
    /\ UNCHANGED pairVars
    /\ UNCHANGED extVars

Next == EvaluateQuiz \/ EvaluateText

Spec == Init /\ [][Next]_vars

\* the same evaluator on short answers, for the properties that are costly
\* to evaluate on every state
MaxShortLen == 2

ShortInit ==
    /\ correctAnswer \in StringsUpTo(MaxShortLen)
    /\ studentAnswer \in StringsUpTo(MaxShortLen)
    /\ questionType \in QuestionTypes
    /\ result = NoResult
    /\ pc = "call"
    /\ HandlerIdle
    /\ PairIdle
    /\ ExtIdle

ShortSpec == ShortInit /\ [][Next]_vars

(***************************************************************************)
(* One POST request { action: 'evaluateAnswer', ... } to the handler.      *)
(***************************************************************************)
HandlerInit ==
    /\ correctAnswer \in RequestStrings
    /\ studentAnswer \in RequestStrings
    /\ questionType \in QuestionTypes \cup {"undefined"}
    /\ question \in {Undefined, << >>, <<97>>}
    /\ geminiApiKey \in BOOLEAN
    /\ result = NoResult
    /\ pc = "call"
    /\ hpc = "start"
    /\ ruleBasedResult = NoResult
    /\ finalFeedback = ruleFeedback("")
    /\ tutorExamples = 0
    /\ retries = 0
    /\ delay = 0
    /\ calls = 0
    /\ response = NoResponse
    /\ tutorFetch = "none"
    /\ aiOutcome = "none"
    /\ PairIdle
    /\ ExtIdle

Respond(r) ==
    /\ response' = r
    /\ hpc' = "responded"

\* if (!geminiApiKey && action !== 'check-keys') return 500
RejectNoKey ==
    /\ hpc = "start"
    /\ ~geminiApiKey
    /\ Respond(errorResponse(500, "GEMINI_API_KEY not configured"))
    /\ UNCHANGED <<ruleBasedResult, finalFeedback, tutorExamples, retries, delay, calls,
                   tutorFetch, aiOutcome>>
    /\ UNCHANGED <<inputVars, result, pc, pairVars, extVars>>

\* missing parameters: 400
RejectMissing ==
    /\ hpc = "start"
    /\ geminiApiKey
    /\ missingParameters(question, correctAnswer, studentAnswer)
    /\ Respond(errorResponse(400, "Missing required parameters: question, correctAnswer, studentAnswer"))
    /\ UNCHANGED <<ruleBasedResult, finalFeedback, tutorExamples, retries, delay, calls,
                   tutorFetch, aiOutcome>>
    /\ UNCHANGED <<inputVars, result, pc, pairVars, extVars>>

\* the rule-based score, up to the await of fetchTutorExamples
ScoreAnswer ==
    /\ hpc = "start"
    /\ geminiApiKey
    /\ ~missingParameters(question, correctAnswer, studentAnswer)
    /\ ruleBasedResult' = evaluateRuleBased(correctAnswer, studentAnswer, questionType)
    /\ finalFeedback' = ruleFeedback(ruleBasedResult'.feedback)
    /\ hpc' = "fetchTutorExamples"
    /\ UNCHANGED <<tutorExamples, retries, delay, calls, response, tutorFetch, aiOutcome>>
    /\ UNCHANGED <<inputVars, result, pc, pairVars, extVars>>

\* fetchTutorExamples(3) resolves with 0..3 examples;
\* the prompt is built and callWithRetry(fn, 1) is entered
FetchTutorExamples ==
    /\ hpc = "fetchTutorExamples"
    /\ \E n \in 0..TutorExamplesMax : tutorExamples' = n
    /\ tutorFetch' = "ok"
    /\ retries' = FeedbackRetries
    /\ delay' = DefaultDelay
    /\ hpc' = "callModel"
    /\ UNCHANGED <<ruleBasedResult, finalFeedback, calls, response, aiOutcome>>
    /\ UNCHANGED <<inputVars, result, pc, pairVars, extVars>>

\* the fetch fails (no client, an error of the query, an exception):
\* fetchTutorExamples catches it and resolves with [], and the handler goes on
FetchTutorExamplesFails ==
    /\ hpc = "fetchTutorExamples"
    /\ tutorExamples' = 0
    /\ tutorFetch' = "failed"
    /\ retries' = FeedbackRetries
    /\ delay' = DefaultDelay
    /\ hpc' = "callModel"
    /\ UNCHANGED <<ruleBasedResult, finalFeedback, calls, response, aiOutcome>>
    /\ UNCHANGED <<inputVars, result, pc, pairVars, extVars>>

\* fn() resolves with response.text
ModelReplies ==
    /\ hpc = "callModel"
    /\ \E aiResponse \in AIReplies :
         /\ finalFeedback' = enhancedFeedback(finalFeedback, aiResponse)
         /\ Respond(evaluateAnswerResponse(ruleBasedResult, finalFeedback'))
    /\ aiOutcome' = IF finalFeedback'.ai THEN "text" ELSE "blank"
    /\ calls' = calls + 1
    /\ UNCHANGED <<ruleBasedResult, tutorExamples, retries, delay, tutorFetch>>
    /\ UNCHANGED <<inputVars, result, pc, pairVars, extVars>>

\* fn() rejects with a rate-limit error and a retry is left: sleep, retry
ModelRateLimited ==
    /\ hpc = "callModel"
    /\ \E error \in Errors : retries > 0 /\ isRateLimit(error)
    /\ calls' = calls + 1
    /\ retries' = retries - 1
    /\ delay' = delay * 2
    /\ UNCHANGED <<hpc, ruleBasedResult, finalFeedback, tutorExamples, response,
                   tutorFetch, aiOutcome>>
    /\ UNCHANGED <<inputVars, result, pc, pairVars, extVars>>

\* mutant: no try/catch around the enhancement; the error reaches the
\* handler's outer catch, which answers 500
ModelFailsUncaught ==
    /\ hpc = "callModel"
    /\ \E error \in Errors : ~(retries > 0 /\ isRateLimit(error))
    /\ calls' = calls + 1
    /\ aiOutcome' = "threw"
    /\ Respond(errorResponse(500, "Internal server error"))
    /\ UNCHANGED <<ruleBasedResult, finalFeedback, tutorExamples, retries, delay, tutorFetch>>
    /\ UNCHANGED <<inputVars, result, pc, pairVars, extVars>>

\* fn() rejects and callWithRetry rethrows: caught, rule-based feedback kept
ModelFails ==
    /\ hpc = "callModel"
    /\ \E error \in Errors : ~(retries > 0 /\ isRateLimit(error))
    /\ calls' = calls + 1
    /\ aiOutcome' = "threw"
    /\ Respond(evaluateAnswerResponse(ruleBasedResult, finalFeedback))
    /\ UNCHANGED <<ruleBasedResult, finalFeedback, tutorExamples, retries, delay, tutorFetch>>
    /\ UNCHANGED <<inputVars, result, pc, pairVars, extVars>>

HandlerNext ==
    \/ RejectNoKey
    \/ RejectMissing
    \/ ScoreAnswer
    \/ FetchTutorExamples
    \/ FetchTutorExamplesFails
    \/ ModelReplies
    \/ ModelRateLimited
    \/ ModelFails

HandlerSpec == HandlerInit /\ [][HandlerNext]_vars

\* The handler's own steps are taken once they can be: its synchronous code
\* runs, and the database query of fetchTutorExamples is taken to settle.
\* Nothing makes the model call settle: the handler awaits it without a
\* timer of its own.
HandlerFairness ==
    /\ WF_vars(RejectNoKey)
    /\ WF_vars(RejectMissing)
    /\ WF_vars(ScoreAnswer)
    /\ WF_vars(FetchTutorExamples \/ FetchTutorExamplesFails)

HandlerLiveSpec == HandlerInit /\ [][HandlerNext]_vars /\ HandlerFairness

(***************************************************************************)
(* Two student answers evaluated against one reference in FreeText mode.   *)
(***************************************************************************)
MaxPairLen == 2

\* ' ', 'a', U+4F60, U+3002
PairAlphabet == {32, 97, 20320, 12290}

PairStrings == StringsOver(PairAlphabet, MaxPairLen)

PairInit ==
    /\ correctAnswer \in PairStrings
    /\ studentAnswer \in PairStrings
    /\ otherAnswer \in PairStrings
    /\ questionType = "translation"
    /\ result = NoResult
    /\ pc = "call"
    /\ otherResult = NoResult
    /\ otherPc = "call"
    /\ HandlerIdle
    /\ ExtIdle

\* calculateRuleBasedScore(correctAnswer, studentAnswer)
EvaluateStudent ==
    /\ pc = "call"
    /\ result' = calculateRuleBasedScore(correctAnswer, studentAnswer)
    /\ pc' = "done"
    /\ UNCHANGED <<correctAnswer, studentAnswer, questionType, pairVars>>
    /\ UNCHANGED handlerVars
    /\ UNCHANGED extVars

\* calculateRuleBasedScore(correctAnswer, otherAnswer)
EvaluateOther ==
    /\ otherPc = "call"
    /\ otherResult' = calculateRuleBasedScore(correctAnswer, otherAnswer)
    /\ otherPc' = "done"
    /\ UNCHANGED <<correctAnswer, studentAnswer, questionType, result, pc, otherAnswer>>
    /\ UNCHANGED handlerVars
    /\ UNCHANGED extVars

PairNext == EvaluateStudent \/ EvaluateOther

PairSpec == PairInit /\ [][PairNext]_vars

(***************************************************************************)
(* The evaluator applied to a pair of answers and to the same pair with    *)
(* white space put before and after each answer, in both modes.            *)
(***************************************************************************)
MaxPadLen == 2

\* the runs of white space put before and after an answer
Paddings ==
    { << << >>, << >> >>, << <<32>>, << >> >>,
      << << >>, <<10, 12288>> >>, << <<9>>, <<32>> >> }

Pad(padding, s) == padding[1] \o s \o padding[2]

PadInit ==
    /\ correctAnswer \in StringsOver(PairAlphabet, MaxPadLen)
    /\ studentAnswer \in StringsOver(PairAlphabet, MaxPadLen)
    /\ questionType \in QuestionTypes
    /\ \E padding \in Paddings : paddedCorrect = Pad(padding, correctAnswer)
    /\ \E padding \in Paddings : paddedStudent = Pad(padding, studentAnswer)
    /\ result = NoResult
    /\ pc = "call"
    /\ paddedResult = NoResult
    /\ paddedPc = "call"
    /\ HandlerIdle
    /\ PairIdle
    /\ ClientIdle
    /\ RetryIdle
    /\ HttpIdle

\* questionType === 'quiz', on the padded answers
EvaluatePaddedQuiz ==
    /\ paddedPc = "call"
    /\ questionType = "quiz"
    /\ paddedResult' = quizScore(paddedCorrect, paddedStudent)
    /\ paddedPc' = "done"
    /\ UNCHANGED <<evalVars, paddedCorrect, paddedStudent, clientVars,
                   retryVars, httpVars>>
    /\ UNCHANGED handlerVars
    /\ UNCHANGED pairVars

\* the else branch, on the padded answers
EvaluatePaddedText ==
    /\ paddedPc = "call"
    /\ questionType # "quiz"
    /\ paddedResult' = calculateRuleBasedScore(paddedCorrect, paddedStudent)
    /\ paddedPc' = "done"
    /\ UNCHANGED <<evalVars, paddedCorrect, paddedStudent, clientVars,
                   retryVars, httpVars>>
    /\ UNCHANGED handlerVars
    /\ UNCHANGED pairVars

PadNext ==
    EvaluateQuiz \/ EvaluateText \/ EvaluatePaddedQuiz \/ EvaluatePaddedText

PadSpec == PadInit /\ [][PadNext]_vars

(***************************************************************************)
(* The same pair of answers given to the server's rule-based step and to   *)
(* the client's evaluateAnswer.  Nothing in the client's try block throws  *)
(* on strings, so its catch branch is never entered.                       *)
(***************************************************************************)
ClientInit ==
    /\ correctAnswer \in StringsUpTo(MaxShortLen)
    /\ studentAnswer \in StringsUpTo(MaxShortLen)
    /\ questionType \in QuestionTypes
    /\ result = NoResult
    /\ pc = "call"
    /\ clientResult = NoResult
    /\ clientPc = "call"
    /\ HandlerIdle
    /\ PairIdle
    /\ PadIdle
    /\ RetryIdle
    /\ HttpIdle

\* if (questionType === 'quiz')
ClientEvaluateQuiz ==
    /\ clientPc = "call"
    /\ questionType = "quiz"
    /\ clientResult' = clientQuizScore(correctAnswer, studentAnswer)
    /\ clientPc' = "done"
    /\ UNCHANGED <<evalVars, padVars, retryVars, httpVars>>
    /\ UNCHANGED handlerVars
    /\ UNCHANGED pairVars

\* else: return calculateRuleBasedScore(correctAnswer, studentAnswer)
ClientEvaluateText ==
    /\ clientPc = "call"
    /\ questionType # "quiz"
    /\ clientResult' = clientCalculateRuleBasedScore(correctAnswer, studentAnswer)
    /\ clientPc' = "done"
    /\ UNCHANGED <<evalVars, padVars, retryVars, httpVars>>
    /\ UNCHANGED handlerVars
    /\ UNCHANGED pairVars

ClientNext ==
    EvaluateQuiz \/ EvaluateText \/ ClientEvaluateQuiz \/ ClientEvaluateText

ClientSpec == ClientInit /\ [][ClientNext]_vars

(***************************************************************************)
(* callWithRetry(fn, retries, delay) on its own.  fn is any asynchronous   *)
(* function: each invocation ends with a value or with a thrown error.     *)
(* The recursive call's parameters are held in retries and delay.          *)
(***************************************************************************)
MaxRetries == 3

\* errors fn may throw: those of Errors and one whose message holds '429'
FnErrors ==
    Errors \cup {[status |-> 0, code |-> 0,
                  message |-> <<"429", "Too", "Many", "Requests">>]}

FnValues == {1, 2}

Resolved(v) == [ok |-> TRUE,  value |-> v, error |-> NoError]
Rejected(e) == [ok |-> FALSE, value |-> 0, error |-> e]

RetryInit ==
    /\ retriesArg \in 0..MaxRetries
    /\ retries = retriesArg
    /\ delay = DefaultDelay
    /\ calls = 0
    /\ retryPc = "try"
    /\ inFlight = 0
    /\ fnOutcomes = << >>
    /\ waits = << >>
    /\ outcome = NoOutcome
    /\ correctAnswer = << >>
    /\ studentAnswer = << >>
    /\ questionType = "translation"
    /\ result = NoResult
    /\ pc = "idle"
    /\ question = Undefined
    /\ geminiApiKey = FALSE
    /\ hpc = "idle"
    /\ ruleBasedResult = NoResult
    /\ finalFeedback = ruleFeedback("")
    /\ tutorExamples = 0
    /\ response = NoResponse
    /\ tutorFetch = "none"
    /\ aiOutcome = "none"
    /\ PairIdle
    /\ PadIdle
    /\ ClientIdle
    /\ HttpIdle

retryFrame == <<correctAnswer, studentAnswer, questionType, result, pc,
                question, geminiApiKey, hpc, ruleBasedResult, finalFeedback,
                tutorExamples, response, tutorFetch, aiOutcome,
                pairVars, padVars, clientVars, httpVars, retriesArg>>

\* try { ... fn() : the invocation starts
InvokeFn ==
    /\ retryPc = "try"
    /\ calls' = calls + 1
    /\ inFlight' = inFlight + 1
    /\ retryPc' = "await"
    /\ UNCHANGED <<retries, delay, fnOutcomes, waits, outcome>>
    /\ UNCHANGED retryFrame

\* return await fn() : fn's promise fulfils and its value is returned
FnResolves ==
    /\ retryPc = "await"
    /\ \E v \in FnValues :
           /\ fnOutcomes' = Append(fnOutcomes, Resolved(v))
           /\ outcome' = [kind |-> "value", value |-> v, error |-> NoError]
    /\ inFlight' = inFlight - 1
    /\ retryPc' = "returned"
    /\ UNCHANGED <<retries, delay, calls, waits>>
    /\ UNCHANGED retryFrame

\* catch (error) with retries > 0 && isRateLimit: the sleep is started
FnRejectsRateLimited ==
    /\ retryPc = "await"
    /\ \E error \in FnErrors :
           /\ shouldRetry(retries, error)
           /\ fnOutcomes' = Append(fnOutcomes, Rejected(error))
    /\ inFlight' = inFlight - 1
    /\ retryPc' = "sleep"
    /\ UNCHANGED <<retries, delay, calls, waits, outcome>>
    /\ UNCHANGED retryFrame

\* catch (error) otherwise: throw error
FnRejects ==
    /\ retryPc = "await"
    /\ \E error \in FnErrors :
           /\ ~ shouldRetry(retries, error)
           /\ fnOutcomes' = Append(fnOutcomes, Rejected(error))
           /\ outcome' = [kind |-> "error", value |-> 0, error |-> error]
    /\ inFlight' = inFlight - 1
    /\ retryPc' = "threw"
    /\ UNCHANGED <<retries, delay, calls, waits>>
    /\ UNCHANGED retryFrame

\* await sleep(delay); return callWithRetry(fn, retries - 1, delay * 2)
SleepEnds ==
    /\ retryPc = "sleep"
    /\ waits' = Append(waits, delay)
    /\ retries' = nextRetries(retries)
    /\ delay' = nextDelay(delay)
    /\ retryPc' = "try"
    /\ UNCHANGED <<calls, inFlight, fnOutcomes, outcome>>
    /\ UNCHANGED retryFrame

RetryNext ==
    InvokeFn \/ FnResolves \/ FnRejectsRateLimited \/ FnRejects \/ SleepEnds

RetrySpec == RetryInit /\ [][RetryNext]_vars

\* every invocation of fn completes and the timer of sleep fires; the
\* steps between them are callWithRetry's own
RetryFairness == WF_vars(RetryNext)

RetryLiveSpec == RetryInit /\ [][RetryNext]_vars /\ RetryFairness

(***************************************************************************)
(* The handler as a whole: one HTTP request, from the method check to the  *)
(* response.  The generateSpeech action is followed call by call; the      *)
(* other Gemini actions are one callWithRetry'd generateContent that       *)
(* either yields a 200 response or throws into the handler's catch block.  *)
(***************************************************************************)
MaxTextLen == 2

HttpMethods == {"OPTIONS", "GET", "POST"}

GeminiActions ==
    {"generateLearningMaterial", "generateExercises", "generateImage",
     "generateVocabularyList", "generateWordDetails", "getChatResponse"}

KnownActions ==
    GeminiActions \cup {"generateSpeech", "evaluateAnswer", "check-keys"}

\* the action field of the body: a case of the switch, another string, or
\* absent
RequestActions == KnownActions \cup {"nope", "undefined"}

\* characters of params.text: space, '*', 'a', 你, and U+9FFF
SpeechAlphabet == {32, 42, 97, 20320, 40959}

SpeechTexts == StringsOver(SpeechAlphabet, MaxTextLen) \cup {Undefined}

\* const corsHeaders
corsHeaders ==
    {"Access-Control-Allow-Origin", "Access-Control-Allow-Headers", "Content-Type"}

\* the headers of the preflight response
preflightHeaders ==
    {"Access-Control-Allow-Origin", "Access-Control-Allow-Headers",
     "Access-Control-Allow-Methods", "Content-Type"}

\* the headers of the response that carries OpenAI's audio
openaiHeaders == {"Content-Type"}

emptyBody == [kind |-> "empty", error |-> << >>, result |-> ""]
errorBody(message) == [kind |-> "error", error |-> message, result |-> ""]
resultBody(what) == [kind |-> "result", error |-> << >>, result |-> what]

httpReply(status, headers, body) ==
    [statusCode |-> status, headers |-> headers, body |-> body]

\* error?.message || 'Internal server error'
caughtMessage(error) ==
    IF error.message # << >> THEN error.message
    ELSE <<"Internal", "server", "error">>

\* text.replace(/[*#_]/g, '')
MarkdownChars == {42, 35, 95}

notMarkdownChar(c) == c \notin MarkdownChars

SpeechMaxChars == 500

\* text.replace(/[*#_]/g, '').substring(0, 500)
speechText(t) ==
    LET stripped == SelectSeq(t, notMarkdownChar)
    IN  IF Len(stripped) <= SpeechMaxChars THEN stripped
        ELSE SubSeq(stripped, 1, SpeechMaxChars)

trimmedText(t) == trim(speechText(t))

SingleCharLast == 40869   \* \u9fa5

\* trimmedText.length === 1 && /[\u4e00-\u9fa5]/.test(trimmedText)
isSingleCharacter(t) ==
    Len(t) = 1 /\ t[1] >= ChineseFirst /\ t[1] <= SingleCharLast

\* finalText = isSingleCharacter ? `${trimmedText}，${trimmedText}` : trimmedText
finalText(t) == IF isSingleCharacter(t) THEN t \o <<65292>> \o t ELSE t

SpeechRetries == 1     \* callWithRetry(..., 1)

RequestInit ==
    /\ httpMethod \in HttpMethods
    /\ bodyParses \in BOOLEAN
    /\ action \in RequestActions
    /\ geminiApiKey \in BOOLEAN
    /\ openaiApiKey \in BOOLEAN
    /\ IF action = "generateSpeech"
       THEN text \in SpeechTexts
       ELSE text = Undefined
    /\ IF action = "evaluateAnswer"
       THEN correctAnswer \in {Undefined, <<97>>}
       ELSE correctAnswer = << >>
    /\ studentAnswer = << >>
    /\ question = <<97>>
    /\ questionType = "translation"
    /\ providerCalls = << >>
    /\ httpResponse = NoHttpResponse
    /\ hpc = "start"
    /\ retries = 0
    /\ delay = 0
    /\ calls = 0
    /\ result = NoResult
    /\ pc = "idle"
    /\ ruleBasedResult = NoResult
    /\ finalFeedback = ruleFeedback("")
    /\ tutorExamples = 0
    /\ response = NoResponse
    /\ tutorFetch = "none"
    /\ aiOutcome = "none"
    /\ PairIdle
    /\ PadIdle
    /\ ClientIdle
    /\ RetryIdle

requestFrame == <<correctAnswer, studentAnswer, questionType, result, pc,
                  question, geminiApiKey, ruleBasedResult, finalFeedback,
                  tutorExamples, response, tutorFetch, aiOutcome,
                  pairVars, padVars, clientVars, retryVars,
                  httpMethod, bodyParses, action, openaiApiKey, text>>

\* return { statusCode, headers, body }
Return(status, headers, body) ==
    /\ httpResponse' = httpReply(status, headers, body)
    /\ hpc' = "responded"

\* the catch block of the handler
Catch(error) ==
    /\ httpResponse' = httpReply(500, corsHeaders, errorBody(caughtMessage(error)))
    /\ hpc' = "caught"

\* the request is a POST with a JSON body and has passed the key check
Dispatched ==
    /\ hpc = "start"
    /\ httpMethod = "POST"
    /\ bodyParses
    /\ geminiApiKey \/ action = "check-keys"

\* if (event.httpMethod === 'OPTIONS')
Preflight ==
    /\ hpc = "start"
    /\ httpMethod = "OPTIONS"
    /\ Return(200, preflightHeaders, emptyBody)
    /\ UNCHANGED <<retries, delay, calls, providerCalls>>
    /\ UNCHANGED requestFrame

\* if (event.httpMethod !== 'POST')
MethodNotAllowed ==
    /\ hpc = "start"
    /\ httpMethod \notin {"OPTIONS", "POST"}
    /\ Return(405, corsHeaders, errorBody(<<"Method", "not", "allowed">>))
    /\ UNCHANGED <<retries, delay, calls, providerCalls>>
    /\ UNCHANGED requestFrame

\* JSON.parse(event.body || '{}') throws a SyntaxError
BodyUnparseable ==
    /\ hpc = "start"
    /\ httpMethod = "POST"
    /\ ~ bodyParses
    /\ Catch([status |-> 0, code |-> 0,
              message |-> <<"Unexpected", "token">>])
    /\ UNCHANGED <<retries, delay, calls, providerCalls>>
    /\ UNCHANGED requestFrame

\* if (!geminiApiKey && action !== 'check-keys')
NoGeminiKey ==
    /\ hpc = "start"
    /\ httpMethod = "POST"
    /\ bodyParses
    /\ ~ geminiApiKey
    /\ action # "check-keys"
    /\ Return(500, corsHeaders, errorBody(<<"GEMINI_API_KEY", "not", "configured">>))
    /\ UNCHANGED <<retries, delay, calls, providerCalls>>
    /\ UNCHANGED requestFrame

\* case 'check-keys'
CheckKeys ==
    /\ Dispatched
    /\ action = "check-keys"
    /\ Return(200, corsHeaders, resultBody("keys"))
    /\ UNCHANGED <<retries, delay, calls, providerCalls>>
    /\ UNCHANGED requestFrame

\* default: Unknown action
UnknownAction ==
    /\ Dispatched
    /\ action \notin KnownActions
    /\ Return(400, corsHeaders, errorBody(<<"Unknown", "action">>))
    /\ UNCHANGED <<retries, delay, calls, providerCalls>>
    /\ UNCHANGED requestFrame

\* case 'evaluateAnswer' with a parameter missing
EvaluateAnswerMissing ==
    /\ Dispatched
    /\ action = "evaluateAnswer"
    /\ missingParameters(question, correctAnswer, studentAnswer)
    /\ Return(400, corsHeaders, errorBody(<<"Missing", "required", "parameters">>))
    /\ UNCHANGED <<retries, delay, calls, providerCalls>>
    /\ UNCHANGED requestFrame

\* a Gemini action, or evaluateAnswer on its parameters, returns its result
ActionReturns ==
    /\ Dispatched
    /\ \/ action \in GeminiActions
       \/ /\ action = "evaluateAnswer"
          /\ ~ missingParameters(question, correctAnswer, studentAnswer)
    /\ Return(200, corsHeaders, resultBody(action))
    /\ UNCHANGED <<retries, delay, calls, providerCalls>>
    /\ UNCHANGED requestFrame

\* the callWithRetry of a Gemini action throws
ActionThrows ==
    /\ Dispatched
    /\ action \in GeminiActions
    /\ \E error \in Errors : Catch(error)
    /\ UNCHANGED <<retries, delay, calls, providerCalls>>
    /\ UNCHANGED requestFrame

\* case 'generateSpeech' without params.text: text.replace throws a TypeError
SpeechTextMissing ==
    /\ Dispatched
    /\ action = "generateSpeech"
    /\ text = Undefined
    /\ Catch([status |-> 0, code |-> 0,
              message |-> <<"Cannot", "read", "properties", "of", "undefined">>])
    /\ UNCHANGED <<retries, delay, calls, providerCalls>>
    /\ UNCHANGED requestFrame

\* if (!speechText.trim())
SpeechEmpty ==
    /\ Dispatched
    /\ action = "generateSpeech"
    /\ text # Undefined
    /\ trimmedText(text) = << >>
    /\ Return(400, corsHeaders, errorBody(<<"Text", "to", "convert", "is", "empty">>))
    /\ UNCHANGED <<retries, delay, calls, providerCalls>>
    /\ UNCHANGED requestFrame

\* if (isSingleCharacter && openaiApiKey): openai.audio.speech.create
CallOpenAI ==
    /\ Dispatched
    /\ action = "generateSpeech"
    /\ text # Undefined
    /\ trimmedText(text) # << >>
    /\ isSingleCharacter(trimmedText(text))
    /\ openaiApiKey
    /\ providerCalls' = Append(providerCalls,
                               [provider |-> "openai", input |-> trimmedText(text)])
    /\ hpc' = "openai"
    /\ UNCHANGED <<retries, delay, calls, httpResponse>>
    /\ UNCHANGED requestFrame

\* the audio of OpenAI is returned
OpenAIReplies ==
    /\ hpc = "openai"
    /\ Return(200, openaiHeaders, resultBody("openai"))
    /\ UNCHANGED <<retries, delay, calls, providerCalls>>
    /\ UNCHANGED requestFrame

\* catch (error): fall back to Gemini
OpenAIFails ==
    /\ hpc = "openai"
    /\ retries' = SpeechRetries
    /\ delay' = DefaultDelay
    /\ hpc' = "gemini"
    /\ UNCHANGED <<calls, providerCalls, httpResponse>>
    /\ UNCHANGED requestFrame

\* the OpenAI branch is not taken
UseGemini ==
    /\ Dispatched
    /\ action = "generateSpeech"
    /\ text # Undefined
    /\ trimmedText(text) # << >>
    /\ ~ (isSingleCharacter(trimmedText(text)) /\ openaiApiKey)
    /\ retries' = SpeechRetries
    /\ delay' = DefaultDelay
    /\ hpc' = "gemini"
    /\ UNCHANGED <<calls, providerCalls, httpResponse>>
    /\ UNCHANGED requestFrame

\* ai.models.generateContent({ ..., contents: [{ parts: [{ text: finalText }] }] })
CallGemini ==
    /\ hpc = "gemini"
    /\ calls' = calls + 1
    /\ providerCalls' = Append(providerCalls,
                               [provider |-> "gemini",
                                input |-> finalText(trimmedText(text))])
    /\ hpc' = "geminiAwait"
    /\ UNCHANGED <<retries, delay, httpResponse>>
    /\ UNCHANGED requestFrame

\* the reply carries audio data
GeminiReplies ==
    /\ hpc = "geminiAwait"
    /\ Return(200, corsHeaders, resultBody("gemini"))
    /\ UNCHANGED <<retries, delay, calls, providerCalls>>
    /\ UNCHANGED requestFrame

\* no candidates, a finishReason other than STOP, or no audio data
GeminiBadReply ==
    /\ hpc = "geminiAwait"
    /\ \E message \in { <<"No", "candidates", "in", "response">>,
                         <<"TTS", "request", "finished", "with", "reason">>,
                         <<"No", "audio", "data", "in", "response">> } :
           Return(500, corsHeaders, errorBody(message))
    /\ UNCHANGED <<retries, delay, calls, providerCalls>>
    /\ UNCHANGED requestFrame

\* a rate-limit error with a retry left: sleep(delay), then the call again
GeminiRateLimited ==
    /\ hpc = "geminiAwait"
    /\ \E error \in Errors : shouldRetry(retries, error)
    /\ retries' = nextRetries(retries)
    /\ delay' = nextDelay(delay)
    /\ hpc' = "gemini"
    /\ UNCHANGED <<calls, providerCalls, httpResponse>>
    /\ UNCHANGED requestFrame

\* callWithRetry throws: the handler's catch block answers
GeminiFails ==
    /\ hpc = "geminiAwait"
    /\ \E error \in Errors :
           /\ ~ shouldRetry(retries, error)
           /\ Catch(error)
    /\ UNCHANGED <<retries, delay, calls, providerCalls>>
    /\ UNCHANGED requestFrame

RequestNext ==
    \/ Preflight
    \/ MethodNotAllowed
    \/ BodyUnparseable
    \/ NoGeminiKey
    \/ CheckKeys
    \/ UnknownAction
    \/ EvaluateAnswerMissing
    \/ ActionReturns
    \/ ActionThrows
    \/ SpeechTextMissing
    \/ SpeechEmpty
    \/ CallOpenAI
    \/ OpenAIReplies
    \/ OpenAIFails
    \/ UseGemini
    \/ CallGemini
    \/ GeminiReplies
    \/ GeminiBadReply
    \/ GeminiRateLimited
    \/ GeminiFails

RequestSpec == RequestInit /\ [][RequestNext]_vars

(***************************************************************************)
(* Properties.  Their vocabulary is that of the specification's data model *)
(* and is defined here on its own, apart from the code's helpers.          *)
(***************************************************************************)
IsSpace(c) == c \in WhiteSpaceChars

\* s without its leading and trailing whitespace
Trimmed(s) ==
    LET solid == {i \in DOMAIN s : ~IsSpace(s[i])}
    IN  IF solid = {} THEN << >>
        ELSE SubSeq(s, CHOOSE i \in solid : \A j \in solid : i <= j,
                       CHOOSE i \in solid : \A j \in solid : i >= j)

IsIdeograph(c) == c \in 19968..40959

IsPunctuation(c) ==
    c \in {65292, 12290, 65281, 65311, 65307, 65306, 12289, 34, 39,
           65288, 65289, 12304, 12305, 12298, 12299,
           44, 46, 33, 63, 59, 58, 45, 40, 41, 91, 93, 123, 125}

\* the ideograph-only subsequence and the punctuation list of an answer
Ideographs(s) == SelectSeq(s, IsIdeograph)
Punct(s)      == SelectSeq(s, IsPunctuation)

Elems(s) == {s[i] : i \in DOMAIN s}

FreeTextDone == pc = "done" /\ questionType # "quiz"
ChoiceDone   == pc = "done" /\ questionType = "quiz"

TrimmedEqual   == Trimmed(correctAnswer) = Trimmed(studentAnswer)
IdeographsSame == Ideographs(correctAnswer) = Ideographs(studentAnswer)
SharedPunct    == Elems(Punct(correctAnswer)) \cap Elems(Punct(studentAnswer)) # {}
SharedIdeograph ==
    Elems(Ideographs(correctAnswer)) \cap Elems(Ideographs(studentAnswer)) # {}

\* C1: every evaluateAnswer request answered with status 200 carries the
\* score of the rule-based evaluator for (correctAnswer, studentAnswer,
\* questionType), whatever the enhancer replied and whatever tutor examples
\* were fetched.
C1_ScoreIsRuleBased ==
    (hpc = "responded" /\ response.statusCode = 200)
        => response.score =
               evaluateRuleBased(correctAnswer, studentAnswer, questionType).score

\* a 200 response whose feedback the enhancer rewrote on its second call,
\* with tutor examples in the prompt, and a score below 100
C1_Witness ==
    /\ hpc = "responded"
    /\ response.statusCode = 200
    /\ response.feedback.ai
    /\ calls = 2
    /\ tutorExamples = TutorExamplesMax
    /\ response.score = 0

\* C2: the FreeText evaluator scores in {0, 25, 50, 75, 100} and the Choice
\* evaluator in {0, 100}.
C2_ScoreRange ==
    pc = "done" =>
        IF questionType = "quiz"
        THEN result.score \in {0, 100}
        ELSE result.score \in {0, 25, 50, 75, 100}

\* a quiz evaluation of two answers that the graduated scorer would give 25
C2_Witness ==
    /\ ChoiceDone
    /\ ~IdeographsSame
    /\ SharedIdeograph
    /\ result.score = 0

\* C3: in FreeText mode, answers that are equal after trimming score 100,
\* whatever characters they contain.
C3_TrimmedEqualScores100 ==
    (FreeTextDone /\ TrimmedEqual) => result.score = 100

\* equal only after trimming, and holding punctuation
C3_Witness ==
    /\ FreeTextDone
    /\ TrimmedEqual
    /\ correctAnswer # studentAnswer
    /\ Punct(correctAnswer) # << >>
    /\ result.score = 100

\* C4: in Choice mode the score is 100 exactly when the answers are equal
\* after trimming, and 0 otherwise.
C4_ChoiceIsBinaryExact ==
    ChoiceDone => result.score = (IF TrimmedEqual THEN 100 ELSE 0)

\* 'A' against 'a' in Choice mode scores 0
C4_Witness ==
    /\ ChoiceDone
    /\ correctAnswer = <<65>>
    /\ studentAnswer = <<97>>
    /\ result.score = 0

\* C5: in FreeText mode, trimmed answers differing, ideographs equal, no
\* punctuation in the reference and some in the student answer: score 75.
C5_ExtraPunctuationScores75 ==
    (/\ FreeTextDone
     /\ ~TrimmedEqual
     /\ IdeographsSame
     /\ Punct(correctAnswer) = << >>
     /\ Punct(studentAnswer) # << >>) => result.score = 75

\* U+4F60 U+597D against U+4F60 U+597D U+3002
C5_Witness ==
    /\ FreeTextDone
    /\ correctAnswer = <<20320, 22909>>
    /\ studentAnswer = <<20320, 22909, 12290>>
    /\ result.score = 75

\* C6: in FreeText mode, trimmed answers differing, ideographs equal, the
\* reference has punctuation and one of its marks occurs anywhere in the
\* student's punctuation: score 75.
C6_SharedPunctuationScores75 ==
    (/\ FreeTextDone
     /\ ~TrimmedEqual
     /\ IdeographsSame
     /\ Punct(correctAnswer) # << >>
     /\ SharedPunct) => result.score = 75

\* the shared mark stands at another position of the student's punctuation
C6_Witness ==
    /\ FreeTextDone
    /\ correctAnswer = <<20320, 65292>>
    /\ studentAnswer = <<12290, 20320, 65292>>
    /\ result.score = 75

\* C7: in FreeText mode, ideographs equal, the reference has punctuation and
\* none of its marks occurs in the student answer: score 50.
C7_NoSharedPunctuationScores50 ==
    (/\ FreeTextDone
     /\ IdeographsSame
     /\ Punct(correctAnswer) # << >>
     /\ ~SharedPunct) => result.score = 50

\* the student answer has no punctuation at all
C7_Witness ==
    /\ FreeTextDone
    /\ correctAnswer = <<20320, 65292>>
    /\ studentAnswer = <<20320>>
    /\ result.score = 50

\* C8: in FreeText mode, ideographs differing, both non-empty and one
\* ideograph of the reference occurring in the student answer: score 25,
\* whatever the punctuation.
C8_OverlapScores25 ==
    (/\ FreeTextDone
     /\ ~IdeographsSame
     /\ Ideographs(correctAnswer) # << >>
     /\ Ideographs(studentAnswer) # << >>
     /\ SharedIdeograph) => result.score = 25

\* the same two ideographs in the other order
C8_Witness ==
    /\ FreeTextDone
    /\ correctAnswer = <<20320, 22909>>
    /\ studentAnswer = <<22909, 65292, 20320>>
    /\ result.score = 25

\* C9: in FreeText mode, ideographs differing and either none shared or one
\* answer without any ideograph: score 0.
C9_NoOverlapScores0 ==
    (/\ FreeTextDone
     /\ ~IdeographsSame
     /\ \/ ~SharedIdeograph
        \/ Ideographs(correctAnswer) = << >>
        \/ Ideographs(studentAnswer) = << >>) => result.score = 0

\* no ideograph in common, though a letter and a punctuation mark are
C9_Witness ==
    /\ FreeTextDone
    /\ correctAnswer = <<20320, 65292>>
    /\ studentAnswer = <<22909, 65292, 97>>
    /\ result.score = 0

\* C10: in FreeText mode, when exactly one of the trimmed answers is empty
\* the score is 0, and when both are empty the score is 100.
C10_EmptyAgainstNonEmptyScores0 ==
    FreeTextDone =>
        /\ (Trimmed(correctAnswer) = << >>) # (Trimmed(studentAnswer) = << >>)
               => result.score = 0
        /\ (Trimmed(correctAnswer) = << >> /\ Trimmed(studentAnswer) = << >>)
               => result.score = 100


\* C11: in FreeText mode, answers whose ideograph subsequences are equal and
\* whose punctuation lists are both empty are already equal after trimming,
\* so that 100 is only ever scored by answers equal after trimming.
C11_FullMarksOnlyForExactMatch ==
    FreeTextDone =>
        /\ (/\ IdeographsSame
            /\ Punct(correctAnswer) = << >>
            /\ Punct(studentAnswer) = << >>) => TrimmedEqual
        /\ result.score = 100 => TrimmedEqual

FeedbackMessages ==
    { "Perfect! Your answer is exactly correct.",
      "Perfect! Your answer is correct.",
      "Excellent! Your Chinese characters are correct, but you have extra punctuation that should be removed.",
      "Great! Your Chinese characters are correct and you have some correct punctuation. Just need to match all punctuation exactly.",
      "Good! Your Chinese characters are correct, but the punctuation needs to match the correct answer.",
      "Excellent! Your Chinese characters are correct. Check the punctuation carefully.",
      "You have some correct characters, but the answer needs more work. Keep practicing!",
      "The answer is incorrect. Please review the correct answer and try again.",
      "Correct! Great job!",
      "Incorrect. Please review the correct answer and try again." }

\* C14: for every pair of strings and either mode the evaluation completes
\* and its result is a score with a feedback message; no input is left
\* without a result.
C14_EvaluationIsTotal ==
    /\ pc = "call" => ENABLED Next
    /\ pc = "done" =>
           /\ result.score \in {0, 25, 50, 75, 100}
           /\ result.feedback \in FeedbackMessages

\* an empty reference against a whitespace-only answer, evaluated
C14_Witness ==
    /\ FreeTextDone
    /\ correctAnswer = << >>
    /\ studentAnswer = <<32, 32>>
    /\ result.feedback \in FeedbackMessages

\* C12 as stated: for one reference, two student answers with the same
\* ideograph subsequence and the same punctuation list (they differ in other
\* characters only) receive the same FreeText score.
C12_OtherCharactersIgnored ==
    (/\ pc = "done" /\ otherPc = "done"
     /\ Ideographs(studentAnswer) = Ideographs(otherAnswer)
     /\ Punct(studentAnswer) = Punct(otherAnswer))
        => result.score = otherResult.score

BothOrNeitherExact ==
    (Trimmed(studentAnswer) = Trimmed(correctAnswer))
        <=> (Trimmed(otherAnswer) = Trimmed(correctAnswer))

\* C12 amended: ... receive the same score unless exactly one of the two
\* equals the reference after trimming.
C12_OtherCharactersIgnoredUnlessExact ==
    (/\ pc = "done" /\ otherPc = "done"
     /\ Ideographs(studentAnswer) = Ideographs(otherAnswer)
     /\ Punct(studentAnswer) = Punct(otherAnswer)
     /\ BothOrNeitherExact)
        => result.score = otherResult.score

\* U+4F60 and 'a' U+4F60 against the reference U+4F60 U+3002: both score 50
C12_Witness ==
    /\ pc = "done" /\ otherPc = "done"
    /\ correctAnswer = <<20320, 12290>>
    /\ studentAnswer = <<20320>>
    /\ otherAnswer = <<97, 20320>>
    /\ result.score = 50
    /\ otherResult.score = 50

Answered == hpc = "responded"

AnswersPresent == correctAnswer # Undefined /\ studentAnswer # Undefined

\* the feedback of the rule-based branch that produced the score
RuleBasedFeedback ==
    [ai |-> FALSE,
     message |-> evaluateRuleBased(correctAnswer, studentAnswer, questionType).feedback,
     text |-> << >>]

EnhancementFailed == aiOutcome \in {"blank", "threw"}

\* C16 as stated: when the enhancement path fails in any way (the tutor
\* example fetch fails, the model call throws, is rate-limited past its
\* retry, or returns empty or whitespace-only text), the request is answered
\* 200 with exactly the rule-based feedback.
C16_AnyFailureKeepsRuleFeedback ==
    (Answered /\ (tutorFetch = "failed" \/ EnhancementFailed))
        => /\ response.statusCode = 200
           /\ response.feedback = RuleBasedFeedback

\* C16 amended: when the model call throws, is rate-limited past its retry,
\* or returns empty or whitespace-only text, the request is answered 200
\* with exactly the rule-based feedback; a failed tutor example fetch leaves
\* the prompt without examples and does not by itself end the enhancement.
C16_ModelFailureKeepsRuleFeedback ==
    (Answered /\ EnhancementFailed)
        => /\ response.statusCode = 200
           /\ response.feedback = RuleBasedFeedback

\* rate-limited on both calls, after a failed tutor example fetch
C16_Witness ==
    /\ Answered
    /\ aiOutcome = "threw"
    /\ calls = 2
    /\ tutorFetch = "failed"
    /\ response.statusCode = 200
    /\ response.feedback = RuleBasedFeedback

\* C17: within one request the model is invoked at most twice, and never
\* again after an invocation has succeeded.
C17_AtMostOneRetry ==
    /\ [](calls <= 2)
    /\ [][(aiOutcome \in {"text", "blank"}) => (calls' = calls)]_vars

\* the second invocation succeeded
C17_Witness ==
    /\ calls = 2
    /\ aiOutcome = "text"
    /\ Answered

\* C18: every request with both answers present is eventually answered,
\* even when the enhancement call never completes.
C18_EventuallyAnswered ==
    (hpc = "start" /\ AnswersPresent) ~> Answered

\* C19 as stated: the action answers 400 if and only if correctAnswer or
\* studentAnswer is absent; the question does not decide acceptance.
C19_Rejects400IffAnswerAbsent ==
    Answered => (response.statusCode = 400 <=> ~AnswersPresent)

QuestionGiven == question # Undefined /\ question # << >>

\* C19 amended: the action answers 400 if and only if the Gemini key is
\* configured and the question is absent or empty or correctAnswer or
\* studentAnswer is absent; an empty string is a valid value of either
\* answer, and such a request is evaluated.
C19_Rejects400IffParameterMissing ==
    Answered =>
        /\ response.statusCode = 400
               <=> (geminiApiKey /\ (~QuestionGiven \/ ~AnswersPresent))
        /\ (geminiApiKey /\ QuestionGiven /\ AnswersPresent)
               => response.statusCode = 200

\* both answers the empty string: accepted and scored 100
C19_Witness ==
    /\ Answered
    /\ QuestionGiven
    /\ correctAnswer = << >>
    /\ studentAnswer = << >>
    /\ response.statusCode = 200
    /\ response.score = 100

\* C20: a request with both answers present never receives a 500-class
\* response, with or without a configured AI key.
C20_No500WhenAnswersPresent ==
    (Answered /\ AnswersPresent) => response.statusCode \notin 500..599

(***************************************************************************)
(* C22: in FreeText mode, when the student's ideographs are the            *)
(* reference's ideographs in another order, or the same set of ideographs  *)
(* with other repetitions, the ideographs do not match and the score is    *)
(* 25, never 50, 75 or 100.                                                *)
(***************************************************************************)
SameIdeographSet ==
    /\ Ideographs(Trimmed(correctAnswer)) # Ideographs(Trimmed(studentAnswer))
    /\ Elems(Ideographs(correctAnswer)) = Elems(Ideographs(studentAnswer))

C22_ReorderedIdeographsScore25 ==
    (FreeTextDone /\ SameIdeographSet) => result.score = 25

\* both cases happen: another order, and another number of repetitions
C22_Witness ==
    /\ FreeTextDone
    /\ result.score = 25
    /\ \/ correctAnswer = <<20320, 22909>> /\ studentAnswer = <<22909, 20320>>
       \/ correctAnswer = <<20320>> /\ studentAnswer = <<20320, 20320>>

(***************************************************************************)
(* C23: in FreeText mode the score is at least 50 exactly when the         *)
(* ideograph-only subsequences of the two trimmed answers are equal, and   *)
(* it is 0 or 25 exactly when they differ.                                 *)
(***************************************************************************)
TrimmedIdeographsSame ==
    Ideographs(Trimmed(correctAnswer)) = Ideographs(Trimmed(studentAnswer))

UnclearPunctuationFeedback ==
    "Excellent! Your Chinese characters are correct. Check the punctuation carefully."

C27_FallbackBranchUnreachable ==
    LET correctPunctuation == extractPunctuation(trim(correctAnswer))
        studentPunctuation == extractPunctuation(trim(studentAnswer))
    IN  FreeTextDone =>
            /\ result.feedback # UnclearPunctuationFeedback
            /\ Len(correctPunctuation) > 0 =>
                   (hasCorrectPunctuation(correctPunctuation, studentPunctuation)
                        <=> ~ allPunctuationDifferent(correctPunctuation,
                                                      studentPunctuation))

\* the ideographs match, the reference has punctuation and the student's
\* punctuation shares a mark with it at another place
C27_Witness ==
    /\ FreeTextDone
    /\ ~ TrimmedEqual
    /\ IdeographsSame
    /\ Punct(correctAnswer) # << >>
    /\ SharedPunct
    /\ Punct(studentAnswer)[1] # Punct(correctAnswer)[1]
    /\ result.score = 75

(***************************************************************************)
(* C21: white space before and after the answers never changes the score,  *)
(* in either mode: the padded pair scores as the pair itself.              *)
(***************************************************************************)
C21_PaddingKeepsScore ==
    (pc = "done" /\ paddedPc = "done") => paddedResult.score = result.score

\* padded on both answers, differently, in each mode and with a score that
\* the padding would change were it compared
C21_Witness ==
    /\ pc = "done"
    /\ paddedPc = "done"
    /\ paddedCorrect # correctAnswer
    /\ paddedStudent # studentAnswer
    /\ Len(paddedCorrect) # Len(paddedStudent)
    /\ correctAnswer = studentAnswer
    /\ correctAnswer # << >>
    /\ paddedResult.score = 100

(***************************************************************************)
(* C24: for every pair of answers and every question type the client's     *)
(* evaluateAnswer and the server's rule-based step return the same score.  *)
(* Violated: for two different answers without ideographs the server's     *)
(* charsMatch holds and the client's does not.                             *)
(***************************************************************************)
C24_ClientAndServerAgree ==
    (pc = "done" /\ clientPc = "done") => clientResult.score = result.score

(***************************************************************************)
(* C25: callWithRetry invokes fn at most retries + 1 times (4 with the     *)
(* default), never two invocations at once; the value it returns is that   *)
(* of the first invocation that succeeded, after which fn is not invoked   *)
(* again; and it completes, with a value or an error, when every           *)
(* invocation of fn completes.                                             *)
(***************************************************************************)
RetryCompleted == retryPc \in {"returned", "threw"}

FirstSuccessReturned ==
    LET n == Len(fnOutcomes)
    IN  /\ n = calls
        /\ fnOutcomes[n].ok
        /\ outcome.value = fnOutcomes[n].value
        /\ \A i \in 1..(n - 1) : ~ fnOutcomes[i].ok

C25_BoundedSequentialRetry ==
    /\ [](calls <= retriesArg + 1)
    /\ [](retriesArg = DefaultRetries => calls <= 4)
    /\ [](inFlight <= 1)
    /\ [](outcome.kind = "value" => FirstSuccessReturned)
    /\ [](\A i \in DOMAIN fnOutcomes : fnOutcomes[i].ok => RetryCompleted)
    /\ [][RetryCompleted => (calls' = calls)]_vars
    /\ <>RetryCompleted

\* the default budget used up and the fourth invocation succeeds
C25_Witness ==
    /\ retriesArg = DefaultRetries
    /\ calls = 4
    /\ retryPc = "returned"
    /\ outcome.kind = "value"
    /\ outcome.value = 2

(***************************************************************************)
(* C26: only rate-limit errors (status or code 429, or a message holding   *)
(* '429', 'quota' or 'RESOURCE_EXHAUSTED') are retried.  An invocation     *)
(* that fails with any other error is the last one: the error is thrown to *)
(* the caller with no wait and no further invocation.  When the budget is  *)
(* used up the last rate-limit error is thrown as it was caught.           *)
(***************************************************************************)
IsRateLimitError(e) ==
    \/ e.status = 429
    \/ e.code = 429
    \/ \E i \in DOMAIN e.message :
           e.message[i] \in {"429", "quota", "RESOURCE_EXHAUSTED"}

Responded == hpc \in {"responded", "caught"}

C28_AlwaysAnswersWithKnownStatus ==
    /\ (hpc \in {"start", "openai", "gemini", "geminiAwait"}) => ENABLED RequestNext
    /\ hpc = "caught" => httpResponse.statusCode = 500
    /\ Responded =>
           /\ httpResponse.statusCode \in {200, 400, 405, 500}
           /\ httpMethod = "OPTIONS" =>
                  (httpResponse.statusCode = 200 /\ httpResponse.body.kind = "empty")
           /\ httpMethod \notin {"OPTIONS", "POST"} =>
                  (httpResponse.statusCode = 405 /\ calls = 0 /\ providerCalls = << >>)
           /\ (httpMethod = "POST" /\ ~ bodyParses) =>
                  httpResponse.statusCode = 500
           /\ (httpMethod = "POST" /\ bodyParses /\ action \notin KnownActions) =>
                  httpResponse.statusCode = 400

(***************************************************************************)
(* C29: every response of the handler, whatever the method, the action and *)
(* the outcome, carries the Access-Control-Allow-Origin header.            *)
(* Violated: the response that carries OpenAI's audio has Content-Type     *)
(* only.                                                                   *)
(***************************************************************************)
C29_EveryResponseHasAllowOrigin ==
    Responded => "Access-Control-Allow-Origin" \in httpResponse.headers

(***************************************************************************)
(* C30: in generateSpeech OpenAI is called only for a cleaned text of one  *)
(* Chinese character with an OpenAI key configured, and then before        *)
(* Gemini; after a failed OpenAI call Gemini is given the character twice  *)
(* around a Chinese comma; Gemini is invoked at most twice; a text that is *)
(* empty after cleaning is answered 400 and no provider is called.         *)
(* Violated: without GEMINI_API_KEY the empty text is answered 500.        *)
(***************************************************************************)
NotMarkup(c) == c \notin {42, 35, 95}

Cleaned == Trimmed(SelectSeq(text, NotMarkup))

OpenAICalls == {i \in DOMAIN providerCalls : providerCalls[i].provider = "openai"}
GeminiCalls == {i \in DOMAIN providerCalls : providerCalls[i].provider = "gemini"}

\* a POST whose body parses to a generateSpeech action with a string text
SpeechRequested ==
    /\ httpMethod = "POST"
    /\ bodyParses
    /\ action = "generateSpeech"
    /\ text # Undefined

C30_SpeechProviderOrder ==
    SpeechRequested =>
        /\ \A i \in OpenAICalls :
               /\ i = 1
               /\ Len(Cleaned) = 1
               /\ IsIdeograph(Cleaned[1])
               /\ openaiApiKey
        /\ Cardinality(GeminiCalls) <= 2
        /\ \A i \in GeminiCalls :
               OpenAICalls # {} =>
                   providerCalls[i].input = <<Cleaned[1], 65292, Cleaned[1]>>
        /\ Cleaned = << >> =>
               /\ providerCalls = << >>
               /\ Responded => httpResponse.statusCode = 400

TypeOK ==
    /\ pc \in {"idle", "call", "done"}
    /\ result.score \in 0..100
    /\ hpc \in {"idle", "start", "fetchTutorExamples", "callModel", "openai",
                 "gemini", "geminiAwait", "responded", "caught"}
    /\ retryPc \in {"idle", "try", "await", "sleep", "returned", "threw"}
    /\ httpResponse.statusCode \in {0, 200, 400, 405, 500}

=============================================================================
